---- MODULE Spec2Model ----
(***************************************************************************)
(* Model of route_registration_from_csv/create_routes_in_jurisdiction.py:  *)
(* one run of main_route_creator under the __main__ guard.                 *)
(*                                                                         *)
(* Text is modelled as a sequence of one-character strings.  The inputs    *)
(* of the run (configuration document, CSV header and rows, results of    *)
(* the gcloud command, HTTP outcomes) are drawn from small sets at the     *)
(* step that reads them.                                                   *)
(*                                                                         *)
(* write_log reads the module global LOG_FILE, which the file never        *)
(* assigns.  log_file_bound says whether the embedding (an importer of     *)
(* the module) has bound that name; run as a script it is unbound and      *)
(* every write_log call raises NameError.                                  *)
(***************************************************************************)
EXTENDS Integers, Sequences, FiniteSets, TLC

VARIABLES
    pc,                     \* position of the run in main_route_creator / __main__
    log_file_bound,         \* is the global LOG_FILE bound?
    config,                 \* the configuration returned by load_config
    encoding,               \* use_combined / use_separate of parse_coordinate_file
    line_num,               \* enumerate(reader, 2) of parse_coordinate_file
    parsed_data,            \* the extracted records
    i,                      \* position of the for loop in parsed_data
    routes_created_count,
    routes_attempted_count,
    config_file,            \* what load_config found at the configuration path
    csv,                    \* the CSV file as opened by parse_coordinate_file
    token_calls,            \* number of get_gcloud_token invocations
    token_result,           \* what the gcloud command did in the last invocation
    current_token,          \* result of the last successful invocation
    requests,               \* the creation requests issued (requests.post)
    response,               \* outcome of the last requests.post
    created_ok,             \* return value of the last create_route_segment
    loop_exit,              \* how the for loop was left
    tally,                  \* the final tally lines written
    critical_logged,        \* CRITICAL SCRIPT ERROR entries written
    skipped_rows,           \* line numbers of the "Skipping row" warnings
    row,                    \* the row last read by parse_coordinate_file
    log_error,              \* has a write_log call raised?
    exit_status             \* <<>> while running, <<code>> once the process ended

vars == << pc, log_file_bound, config_file, config, csv, encoding, line_num,
           parsed_data, i, routes_created_count, routes_attempted_count,
           token_calls, token_result, current_token, requests, response,
           created_ok, loop_exit, tally, critical_logged, skipped_rows, row,
           log_error, exit_status >>

----------------------------------------------------------------------------
(* Bounds *)

MaxRows == 3        \* data rows read from the CSV file
MaxCap == 2         \* largest max_routes_to_create written in the configuration

----------------------------------------------------------------------------
(* Text *)

Digits == << "0", "1", "2", "3", "4", "5", "6", "7", "8", "9" >>

RECURSIVE Dec(_)
\* f"{route_id_counter}" of a non-negative integer
Dec(n) == IF n < 10 THEN << Digits[n + 1] >>
          ELSE Dec(n \div 10) \o << Digits[(n % 10) + 1] >>

\* str.lower() on the characters of the model's alphabet
Lower(c) == IF c = "A" THEN "a" ELSE IF c = "B" THEN "b" ELSE c

\* [a-z0-9-]
AllowedChars == { "a", "b", "c", "d", "e", "f", "g", "h", "i", "j", "k", "l", "m",
                  "n", "o", "p", "q", "r", "s", "t", "u", "v", "w", "x", "y", "z",
                  "0", "1", "2", "3", "4", "5", "6", "7", "8", "9", "-" }

IsAllowed(c) == c \in AllowedChars

\* display_name.lower().replace(' ', '-') then re.sub(r'[^a-z0-9-]', '', ...)
RouteName(text) ==
    LET lowered  == [ k \in 1..Len(text) |-> Lower(text[k]) ]
        hyphened == [ k \in 1..Len(lowered) |-> IF lowered[k] = " " THEN "-" ELSE lowered[k] ]
    IN  SelectSeq(hyphened, IsAllowed)

\* a display name: None, or a string
None == [ present |-> FALSE, text |-> << >> ]
Str(t) == [ present |-> TRUE, text |-> t ]

\* "if display_name:" -- None and "" are both falsy
Truthy(name) == name.present /\ name.text # << >>

FallbackName == << "s", "a", "l", "t", "-", "l", "a", "k", "e", "-", "c", "i", "t", "y" >>

\* the selected_route_id of create_route_segment
SelectedRouteId(prefix, display_name, route_id_counter) ==
    IF Truthy(display_name)
    THEN prefix \o RouteName(display_name.text) \o << "-" >> \o Dec(route_id_counter)
    ELSE prefix \o FallbackName \o << "-" >> \o Dec(route_id_counter)

----------------------------------------------------------------------------
(* Inputs *)

\* the display names a CSV row may carry
Labels == { None,
            Str(<< >>),
            Str(<< "a" >>),
            Str(<< "a", "-", "1" >>),
            Str(<< "A", " ", "1", "!" >>) }

\* route_name_prefix values
Prefixes == { << >>, << "p", "-" >> }

DefaultMaxRoutes == 100

\* max_routes_to_create: absent (the default), or an integer
MaxRoutesValues == { DefaultMaxRoutes } \cup (-1 .. MaxCap)

\* the documents load_config may find
Configs == [ google_project_id : BOOLEAN,
             max_routes        : MaxRoutesValues,
             prefix            : Prefixes,
             combined          : BOOLEAN,      \* csv_format has combined_coordinates
             separate          : BOOLEAN,      \* csv_format has separate_coordinates
             name_col          : BOOLEAN ]     \* csv_format has segment_name_column

NoConfig == [ google_project_id |-> FALSE, max_routes |-> DefaultMaxRoutes,
              prefix |-> << >>, combined |-> FALSE, separate |-> FALSE,
              name_col |-> FALSE ]

\* what is at the configuration path
ConfigFiles == { [ kind |-> "missing",   doc |-> NoConfig ],
                 [ kind |-> "malformed", doc |-> NoConfig ],
                 [ kind |-> "empty",     doc |-> NoConfig ] }
               \cup { [ kind |-> "ok", doc |-> c ] : c \in Configs }

\* load_config: the document, or None
load_config(file) ==
    IF file.kind = "ok" THEN [ none |-> FALSE, doc |-> file.doc ]
    ELSE [ none |-> TRUE, doc |-> NoConfig ]

\* the CSV file: absent, or its header (fieldnames is None for an empty file)
NoCsv == [ exists |-> FALSE, fieldnames |-> FALSE, combined |-> FALSE, separate |-> FALSE ]

CsvFiles == { NoCsv }
            \cup [ exists : { TRUE }, fieldnames : { FALSE }, combined : { FALSE }, separate : { FALSE } ]
            \cup [ exists : { TRUE }, fieldnames : { TRUE }, combined : BOOLEAN, separate : BOOLEAN ]

\* a data row: do its combined cells match coord_regex, do its four separate
\* cells parse as floats, and its segment-name cell
Rows == [ combined_ok : BOOLEAN, separate_ok : BOOLEAN, name : Labels ]

\* results of the gcloud command
TokenResults == { "token", "empty", "nonzero", "notfound", "error" }

\* outcomes of requests.post
Statuses == { 200, 201, 204, 500 }
Outcomes == [ kind : { "status" }, code : Statuses ]
            \cup [ kind : { "RequestException", "Timeout", "Exception" }, code : { 0 } ]

NoResponse == [ kind |-> "none", code |-> 0 ]

\* no row read
NoRow == [ combined_ok |-> FALSE, separate_ok |-> FALSE, name |-> None ]

----------------------------------------------------------------------------
(* Functions *)

\* write_log: open(LOG_FILE, 'a') raises NameError when the global is unbound
write_log(bound) == IF bound THEN "logged" ELSE "NameError"

\* mutant of get_gcloud_token: a missing gcloud command is not wrapped into
\* TokenGenerationError
get_gcloud_token_Unwrapped(bound, result) ==
    IF write_log(bound) = "NameError" THEN "OtherError"
    ELSE IF result = "token" THEN "returned"
    ELSE IF result = "notfound" THEN "OtherError"
    ELSE "TokenGenerationError"

\* get_gcloud_token: how the call ends for a result of the gcloud command.
\* Every failure of the command leaves as TokenGenerationError; a write_log
\* that raises inside the except clauses leaves as that other error.
get_gcloud_token(bound, result) ==
    IF write_log(bound) = "NameError" THEN "OtherError"
    ELSE IF result = "token" THEN "returned"
    ELSE IF result = "empty" THEN "TokenGenerationError"
    ELSE IF result = "nonzero" THEN "TokenGenerationError"
    ELSE IF result = "notfound" THEN "TokenGenerationError"
    ELSE "TokenGenerationError"

\* mutant of create_route_segment: no "except Exception" clause
create_route_segment_Uncaught(bound, outcome) ==
    IF write_log(bound) = "NameError"
    THEN [ posted |-> FALSE, raised |-> TRUE, ret |-> FALSE ]
    ELSE IF outcome.kind = "status"
    THEN [ posted |-> TRUE, raised |-> FALSE, ret |-> outcome.code \in { 200, 201 } ]
    ELSE IF outcome.kind \in { "RequestException", "Timeout" }
    THEN [ posted |-> TRUE, raised |-> FALSE, ret |-> FALSE ]
    ELSE [ posted |-> TRUE, raised |-> TRUE, ret |-> FALSE ]

\* create_route_segment: was the request posted, the value returned, and
\* whether an exception left the function (the write_log call before the try
\* block is the only statement outside it that can raise)
create_route_segment(bound, outcome) ==
    IF write_log(bound) = "NameError"
    THEN [ posted |-> FALSE, raised |-> TRUE, ret |-> FALSE ]
    ELSE IF outcome.kind = "status"
    THEN [ posted |-> TRUE, raised |-> FALSE, ret |-> outcome.code \in { 200, 201 } ]
    ELSE IF outcome.kind \in { "RequestException", "Timeout" }
    THEN [ posted |-> TRUE, raised |-> FALSE, ret |-> FALSE ]
    ELSE [ posted |-> TRUE, raised |-> FALSE, ret |-> FALSE ]

\* mutant of DetectEncoding: the separate encoding is tested first
DetectEncoding_SeparateFirst(cfg, file) ==
    IF cfg.separate /\ ~file.fieldnames THEN "TypeError"
    ELSE IF cfg.separate /\ file.separate THEN "separate"
    ELSE IF cfg.combined /\ ~file.fieldnames THEN "TypeError"
    ELSE IF cfg.combined /\ file.combined THEN "combined"
    ELSE "none"

\* mutant of DetectEncoding: no "neither format matches" test, the separate
\* branch is taken
DetectEncoding_NoCheck(cfg, file) ==
    IF cfg.combined /\ ~file.fieldnames THEN "TypeError"
    ELSE IF cfg.combined /\ file.combined THEN "combined"
    ELSE IF cfg.separate /\ ~file.fieldnames THEN "TypeError"
    ELSE "separate"

\* header detection of parse_coordinate_file: "TypeError" (membership test on
\* fieldnames None), "none" (no format matches), "combined" or "separate"
DetectEncoding(cfg, file) ==
    IF cfg.combined /\ ~file.fieldnames THEN "TypeError"
    ELSE IF cfg.combined /\ file.combined THEN "combined"
    ELSE IF cfg.separate /\ ~file.fieldnames THEN "TypeError"
    ELSE IF cfg.separate /\ file.separate THEN "separate"
    ELSE "none"

\* does the row parse under the detected encoding?
RowParses(enc, r) ==
    IF enc = "combined" THEN r.combined_ok ELSE r.separate_ok

\* display_name = row.get(display_name_col) if display_name_col else None
DisplayName(cfg, r) == IF cfg.name_col THEN r.name ELSE None

\* mutant of RouteIdCounter: counted from 0
RouteIdCounter_ZeroBased(attempted, created) == attempted - 1

\* mutant of RouteIdCounter: numbered by the routes created so far
RouteIdCounter_Created(attempted, created) == created + 1

\* the counter handed to create_route_segment as route_id_counter
RouteIdCounter(attempted, created) == attempted

\* mutant of CapReached: > for >=
CapReached_OffByOne(created, max_routes) == created > max_routes

\* mutant of CapReached: the configured value is not read, only the default
CapReached_DefaultOnly(created, max_routes) == created >= DefaultMaxRoutes

\* "if routes_created_count >= max_routes"
CapReached(created, max_routes) == created >= max_routes

----------------------------------------------------------------------------
(* The run *)

Init ==
    /\ pc = "start"
    /\ log_file_bound \in BOOLEAN
    /\ config_file = "unread"
    /\ config = NoConfig
    /\ csv = NoCsv
    /\ encoding = "none"
    /\ line_num = 2
    /\ parsed_data = << >>
    /\ i = 0
    /\ routes_created_count = 0
    /\ routes_attempted_count = 0
    /\ token_calls = 0
    /\ token_result = "none"
    /\ current_token = 0
    /\ requests = << >>
    /\ response = NoResponse
    /\ created_ok = FALSE
    /\ loop_exit = "none"
    /\ tally = << >>
    /\ critical_logged = 0
    /\ skipped_rows = { }
    /\ row = NoRow
    /\ log_error = FALSE
    /\ exit_status = << >>

\* line 225: write_log("Route Creator Script started.")
Start ==
    /\ pc = "start"
    /\ pc' = IF write_log(log_file_bound) = "NameError" THEN "handler" ELSE "configure"
    /\ log_error' = ( write_log(log_file_bound) = "NameError" )
    /\ UNCHANGED << log_file_bound, config_file, config, csv, encoding, line_num,
                    parsed_data, i, routes_created_count, routes_attempted_count,
                    token_calls, token_result, current_token, requests, response,
                    created_ok, loop_exit, tally, critical_logged, exit_status,
                    skipped_rows, row >>

\* lines 227-241: load the configuration, require the project id
Configure ==
    /\ pc = "configure"
    /\ \E file \in ConfigFiles :
          LET loaded == load_config(file) IN
          /\ config_file' = file.kind
          /\ IF loaded.none
             THEN /\ pc' = "aborted"
                  /\ exit_status' = << 1 >>
                  /\ UNCHANGED config
             ELSE IF ~loaded.doc.google_project_id
             THEN /\ pc' = "aborted"
                  /\ exit_status' = << 1 >>
                  /\ config' = loaded.doc
             ELSE /\ pc' = "parse_header"
                  /\ config' = loaded.doc
                  /\ UNCHANGED exit_status
    /\ UNCHANGED << log_file_bound, csv, encoding, line_num, parsed_data, i,
                    routes_created_count, routes_attempted_count, token_calls,
                    token_result, current_token, requests, response, created_ok,
                    loop_exit, tally, critical_logged,
                    skipped_rows, log_error, row >>

\* lines 106-126 and 244-246: open the CSV file, detect the encoding
ParseHeader ==
    /\ pc = "parse_header"
    /\ \E file \in CsvFiles :
          LET enc == DetectEncoding(config, file) IN
          /\ csv' = file
          /\ IF ~file.exists \/ enc = "TypeError"
             THEN /\ pc' = "handler"
                  /\ UNCHANGED << encoding, exit_status >>
             ELSE IF enc = "none"
             THEN /\ pc' = "aborted"
                  /\ exit_status' = << 1 >>
                  /\ UNCHANGED encoding
             ELSE /\ pc' = "parse_rows"
                  /\ encoding' = enc
                  /\ UNCHANGED exit_status
    /\ UNCHANGED << log_file_bound, config_file, config, line_num, parsed_data,
                    i, routes_created_count, routes_attempted_count, token_calls,
                    token_result, current_token, requests, response, created_ok,
                    loop_exit, tally, critical_logged,
                    skipped_rows, log_error, row >>

\* mutant of ParseRow: the error of an unparsable row is not caught
ParseRow_AbortOnBadRow ==
    /\ pc = "parse_rows"
    /\ line_num < 2 + MaxRows
    /\ \E r \in Rows :
          /\ row' = r
          /\ IF RowParses(encoding, r)
             THEN /\ parsed_data' = Append(parsed_data,
                        [ line |-> line_num, display_name |-> DisplayName(config, r) ])
                  /\ line_num' = line_num + 1
                  /\ UNCHANGED pc
             ELSE /\ pc' = "handler"
                  /\ UNCHANGED << parsed_data, line_num >>
    /\ UNCHANGED << log_file_bound, config_file, config, csv, encoding, i,
                    routes_created_count, routes_attempted_count, token_calls,
                    token_result, current_token, requests, response, created_ok,
                    loop_exit, tally, critical_logged, exit_status, skipped_rows,
                    log_error >>

\* lines 128-161: one data row, appended or skipped
ParseRow ==
    /\ pc = "parse_rows"
    /\ line_num < 2 + MaxRows
    /\ \E r \in Rows :
          /\ row' = r
          /\ IF RowParses(encoding, r)
             THEN /\ parsed_data' = Append(parsed_data,
                        [ line |-> line_num, display_name |-> DisplayName(config, r) ])
                  /\ UNCHANGED skipped_rows
             ELSE /\ skipped_rows' = skipped_rows \cup { line_num }
                  /\ UNCHANGED parsed_data
    /\ line_num' = line_num + 1
    /\ UNCHANGED << pc, log_file_bound, config_file, config, csv, encoding, i,
                    routes_created_count, routes_attempted_count, token_calls,
                    token_result, current_token, requests, response, created_ok,
                    loop_exit, tally, critical_logged, exit_status, log_error >>

\* mutant of ParseEnd: an empty result is treated like a failed parse
ParseEnd_EmptyIsError ==
    /\ pc = "parse_rows"
    /\ csv' = NoCsv
    /\ encoding' = "none"
    /\ line_num' = 2
    /\ row' = NoRow
    /\ IF parsed_data = << >>
       THEN /\ pc' = "aborted"
            /\ exit_status' = << 1 >>
       ELSE /\ pc' = "loop_head"
            /\ UNCHANGED exit_status
    /\ UNCHANGED << log_file_bound, config_file, config, parsed_data, i,
                    routes_created_count, routes_attempted_count, token_calls,
                    token_result, current_token, requests, response, created_ok,
                    loop_exit, tally, critical_logged, skipped_rows, log_error >>

\* lines 163 and 248-253: end of file, parse_coordinate_file returns (its
\* locals, the open file among them, are gone); main_route_creator returns
\* early when nothing was extracted
ParseEnd ==
    /\ pc = "parse_rows"
    /\ csv' = NoCsv
    /\ encoding' = "none"
    /\ line_num' = 2
    /\ row' = NoRow
    /\ IF parsed_data = << >>
       THEN /\ pc' = "done"
            /\ exit_status' = << 0 >>
       ELSE /\ pc' = "loop_head"
            /\ UNCHANGED exit_status
    /\ UNCHANGED << log_file_bound, config_file, config, parsed_data, i,
                    routes_created_count, routes_attempted_count, token_calls,
                    token_result, current_token, requests, response, created_ok,
                    loop_exit, tally, critical_logged,
                    skipped_rows, log_error >>

\* mutant of LoopHead: the attempted counter is incremented before the cap test
LoopHead_CountsCapped ==
    /\ pc = "loop_head"
    /\ IF i = Len(parsed_data)
       THEN /\ pc' = "finish"
            /\ loop_exit' = "exhausted"
            /\ UNCHANGED << i, routes_attempted_count >>
       ELSE IF CapReached(routes_created_count, config.max_routes)
       THEN /\ pc' = "finish"
            /\ loop_exit' = "cap"
            /\ i' = i + 1
            /\ routes_attempted_count' = routes_attempted_count + 1
       ELSE /\ pc' = "fetch_token"
            /\ i' = i + 1
            /\ routes_attempted_count' = routes_attempted_count + 1
            /\ UNCHANGED loop_exit
    /\ response' = NoResponse
    /\ created_ok' = FALSE
    /\ UNCHANGED << log_file_bound, config_file, config, csv, encoding, line_num,
                    parsed_data, routes_created_count, token_calls, token_result,
                    current_token, requests, tally, critical_logged, exit_status,
                    skipped_rows, log_error, row >>

\* lines 255-260: next record, cap test, attempted counter
LoopHead ==
    /\ pc = "loop_head"
    /\ IF i = Len(parsed_data)
       THEN /\ pc' = "finish"
            /\ loop_exit' = "exhausted"
            /\ UNCHANGED << i, routes_attempted_count >>
       ELSE IF CapReached(routes_created_count, config.max_routes)
       THEN /\ pc' = "finish"
            /\ loop_exit' = "cap"
            /\ i' = i + 1
            /\ UNCHANGED routes_attempted_count
       ELSE /\ pc' = "fetch_token"
            /\ i' = i + 1
            /\ routes_attempted_count' = routes_attempted_count + 1
            /\ UNCHANGED loop_exit
    /\ response' = NoResponse
    /\ created_ok' = FALSE
    /\ UNCHANGED << log_file_bound, config_file, config, csv, encoding, line_num,
                    parsed_data, routes_created_count, token_calls, token_result,
                    current_token, requests, tally, critical_logged, exit_status,
                    skipped_rows, log_error, row >>

\* mutant of FetchToken: a failed token fetch is tried again for the same record
FetchToken_RetryOnError ==
    /\ pc = "fetch_token"
    /\ token_calls' = token_calls + 1
    /\ \E result \in TokenResults :
          LET got == get_gcloud_token(log_file_bound, result) IN
          /\ token_result' = result
          /\ IF got = "returned"
             THEN /\ pc' = "submit"
                  /\ current_token' = token_calls + 1
             ELSE IF got = "TokenGenerationError"
             THEN /\ pc' = "fetch_token"
                  /\ UNCHANGED current_token
             ELSE /\ pc' = "handler"
                  /\ UNCHANGED current_token
    /\ UNCHANGED << log_file_bound, config_file, config, csv, encoding, line_num,
                    parsed_data, i, routes_created_count, routes_attempted_count,
                    requests, response, created_ok, loop_exit, tally,
                    critical_logged, exit_status, skipped_rows, row, log_error >>

\* mutant of FetchToken: the token of an earlier record is kept and reused
FetchToken_Cached ==
    /\ pc = "fetch_token"
    /\ IF current_token # 0
       THEN /\ pc' = "submit"
            /\ UNCHANGED << token_calls, token_result, current_token, loop_exit >>
       ELSE /\ token_calls' = token_calls + 1
            /\ \E result \in TokenResults :
                  LET got == get_gcloud_token(log_file_bound, result) IN
                  /\ token_result' = result
                  /\ IF got = "returned"
                     THEN /\ pc' = "submit"
                          /\ current_token' = token_calls + 1
                          /\ UNCHANGED loop_exit
                     ELSE IF got = "TokenGenerationError"
                     THEN /\ pc' = "finish"
                          /\ loop_exit' = "token"
                          /\ UNCHANGED current_token
                     ELSE /\ pc' = "handler"
                          /\ UNCHANGED << current_token, loop_exit >>
    /\ UNCHANGED << log_file_bound, config_file, config, csv, encoding, line_num,
                    parsed_data, i, routes_created_count, routes_attempted_count,
                    requests, response, created_ok, tally, critical_logged,
                    exit_status,
                    skipped_rows, log_error, row >>

\* lines 262-266: a token for this record
FetchToken ==
    /\ pc = "fetch_token"
    /\ token_calls' = token_calls + 1
    /\ \E result \in TokenResults :
          LET got == get_gcloud_token(log_file_bound, result) IN
          /\ token_result' = result
          /\ IF got = "returned"
             THEN /\ pc' = "submit"
                  /\ current_token' = token_calls + 1
                  /\ UNCHANGED loop_exit
             ELSE IF got = "TokenGenerationError"
             THEN /\ pc' = "finish"
                  /\ loop_exit' = "token"
                  /\ UNCHANGED current_token
             ELSE /\ pc' = "handler"
                  /\ UNCHANGED << current_token, loop_exit >>
    /\ log_error' = ( log_error \/ write_log(log_file_bound) = "NameError" )
    /\ UNCHANGED << log_file_bound, config_file, config, csv, encoding, line_num,
                    parsed_data, i, routes_created_count, routes_attempted_count,
                    requests, response, created_ok, tally, critical_logged,
                    exit_status, skipped_rows, row >>

\* mutant of Submit: a failed submission is tried again
Submit_RetryOnFailure ==
    /\ pc = "submit"
    /\ \E outcome \in Outcomes :
          LET rec     == parsed_data[i]
              counter == RouteIdCounter(routes_attempted_count, routes_created_count)
              res     == create_route_segment(log_file_bound, outcome)
          IN  /\ IF res.posted
                 THEN /\ requests' = Append(requests,
                            [ line    |-> rec.line,
                              counter |-> counter,
                              id      |-> SelectedRouteId(config.prefix, rec.display_name, counter),
                              token   |-> current_token ])
                      /\ response' = outcome
                 ELSE UNCHANGED << requests, response >>
              /\ IF res.raised
                 THEN /\ pc' = "handler"
                      /\ UNCHANGED << i, created_ok, routes_created_count >>
                 ELSE /\ pc' = "loop_head"
                      /\ i' = IF res.ret THEN i ELSE i - 1
                      /\ created_ok' = res.ret
                      /\ routes_created_count' = IF res.ret THEN routes_created_count + 1
                                                 ELSE routes_created_count
    /\ UNCHANGED << log_file_bound, config_file, config, csv, encoding, line_num,
                    parsed_data, routes_attempted_count, token_calls,
                    token_result, current_token, loop_exit, tally, critical_logged,
                    exit_status, skipped_rows, log_error, row >>

\* mutant of Submit: a failed submission leaves the loop
Submit_BreakOnFailure ==
    /\ pc = "submit"
    /\ \E outcome \in Outcomes :
          LET rec     == parsed_data[i]
              counter == RouteIdCounter(routes_attempted_count, routes_created_count)
              res     == create_route_segment(log_file_bound, outcome)
          IN  /\ IF res.posted
                 THEN /\ requests' = Append(requests,
                            [ line    |-> rec.line,
                              counter |-> counter,
                              id      |-> SelectedRouteId(config.prefix, rec.display_name, counter),
                              token   |-> current_token ])
                      /\ response' = outcome
                 ELSE UNCHANGED << requests, response >>
              /\ IF res.raised
                 THEN /\ pc' = "handler"
                      /\ UNCHANGED << created_ok, routes_created_count >>
                 ELSE /\ pc' = IF res.ret THEN "loop_head" ELSE "finish"
                      /\ created_ok' = res.ret
                      /\ routes_created_count' = IF res.ret THEN routes_created_count + 1
                                                 ELSE routes_created_count
    /\ UNCHANGED << log_file_bound, config_file, config, csv, encoding, line_num,
                    parsed_data, i, routes_attempted_count, token_calls,
                    token_result, current_token, loop_exit, tally, critical_logged,
                    exit_status,
                    skipped_rows, log_error, row >>

\* mutant of Submit: every submission that returns is counted as created
Submit_CountsAll ==
    /\ pc = "submit"
    /\ \E outcome \in Outcomes :
          LET rec     == parsed_data[i]
              counter == RouteIdCounter(routes_attempted_count, routes_created_count)
              res     == create_route_segment(log_file_bound, outcome)
          IN  /\ IF res.posted
                 THEN /\ requests' = Append(requests,
                            [ line    |-> rec.line,
                              counter |-> counter,
                              id      |-> SelectedRouteId(config.prefix, rec.display_name, counter),
                              token   |-> current_token ])
                      /\ response' = outcome
                 ELSE UNCHANGED << requests, response >>
              /\ IF res.raised
                 THEN /\ pc' = "handler"
                      /\ UNCHANGED << created_ok, routes_created_count >>
                 ELSE /\ pc' = "loop_head"
                      /\ created_ok' = res.ret
                      /\ routes_created_count' = routes_created_count + 1
    /\ log_error' = ( log_error \/ write_log(log_file_bound) = "NameError" )
    /\ UNCHANGED << log_file_bound, config_file, config, csv, encoding, line_num,
                    parsed_data, i, routes_attempted_count, token_calls,
                    token_result, current_token, loop_exit, tally, critical_logged,
                    exit_status, skipped_rows, row >>

\* lines 268-271: create_route_segment for this record
Submit ==
    /\ pc = "submit"
    /\ \E outcome \in Outcomes :
          LET rec     == parsed_data[i]
              counter == RouteIdCounter(routes_attempted_count, routes_created_count)
              res     == create_route_segment(log_file_bound, outcome)
          IN  /\ IF res.posted
                 THEN /\ requests' = Append(requests,
                            [ line    |-> rec.line,
                              counter |-> counter,
                              id      |-> SelectedRouteId(config.prefix, rec.display_name, counter),
                              token   |-> current_token ])
                      /\ response' = outcome
                 ELSE UNCHANGED << requests, response >>
              /\ IF res.raised
                 THEN /\ pc' = "handler"
                      /\ UNCHANGED << created_ok, routes_created_count >>
                 ELSE /\ pc' = "loop_head"
                      /\ created_ok' = res.ret
                      /\ routes_created_count' = IF res.ret THEN routes_created_count + 1
                                                 ELSE routes_created_count
    /\ log_error' = ( log_error \/ write_log(log_file_bound) = "NameError" )
    /\ UNCHANGED << log_file_bound, config_file, config, csv, encoding, line_num,
                    parsed_data, i, routes_attempted_count, token_calls,
                    token_result, current_token, loop_exit, tally, critical_logged,
                    exit_status, skipped_rows, row >>

\* mutant of Finish: a batch stopped early ends as a failure
Finish_FailOnStop ==
    /\ pc = "finish"
    /\ IF loop_exit = "exhausted"
       THEN /\ tally' = Append(tally, [ attempted |-> routes_attempted_count,
                                        available |-> Len(parsed_data),
                                        created   |-> routes_created_count ])
            /\ pc' = "done"
            /\ exit_status' = << 0 >>
       ELSE /\ pc' = "aborted"
            /\ exit_status' = << 1 >>
            /\ UNCHANGED tally
    /\ UNCHANGED << log_file_bound, config_file, config, csv, encoding, line_num,
                    parsed_data, i, routes_created_count, routes_attempted_count,
                    token_calls, token_result, current_token, requests, response,
                    created_ok, loop_exit, critical_logged,
                    skipped_rows, log_error, row >>

\* lines 273-275: the final tally, normal return
Finish ==
    /\ pc = "finish"
    /\ tally' = Append(tally, [ attempted |-> routes_attempted_count,
                                available |-> Len(parsed_data),
                                created   |-> routes_created_count ])
    /\ pc' = "done"
    /\ exit_status' = << 0 >>
    /\ UNCHANGED << log_file_bound, config_file, config, csv, encoding, line_num,
                    parsed_data, i, routes_created_count, routes_attempted_count,
                    token_calls, token_result, current_token, requests, response,
                    created_ok, loop_exit, critical_logged,
                    skipped_rows, log_error, row >>

\* lines 283-294: the outermost handler; os.path.abspath(LOG_FILE) raises
\* NameError when the global is unbound and the process dies on that error
Handler ==
    /\ pc = "handler"
    /\ pc' = "crashed"
    /\ critical_logged' = IF log_file_bound THEN critical_logged + 1 ELSE critical_logged
    /\ exit_status' = << 1 >>
    /\ UNCHANGED << log_file_bound, config_file, config, csv, encoding, line_num,
                    parsed_data, i, routes_created_count, routes_attempted_count,
                    token_calls, token_result, current_token, requests, response,
                    created_ok, loop_exit, tally,
                    skipped_rows, log_error, row >>

Next ==
    \/ Start
    \/ Configure
    \/ ParseHeader
    \/ ParseRow
    \/ ParseEnd
    \/ LoopHead
    \/ FetchToken
    \/ Submit
    \/ Finish
    \/ Handler

Spec == Init /\ [][Next]_vars

TypeOK ==
    /\ pc \in { "start", "configure", "parse_header", "parse_rows", "loop_head",
                "fetch_token", "submit", "finish", "handler", "done", "aborted",
                "crashed" }
    /\ log_file_bound \in BOOLEAN
    /\ config_file \in { "unread", "missing", "malformed", "empty", "ok" }
    /\ config \in Configs \cup { NoConfig }
    /\ csv \in CsvFiles
    /\ encoding \in { "none", "combined", "separate" }
    /\ line_num \in 2 .. (2 + MaxRows)
    /\ Len(parsed_data) <= MaxRows
    /\ i \in 0 .. Len(parsed_data)
    /\ routes_created_count \in 0 .. MaxRows
    /\ routes_attempted_count \in 0 .. MaxRows
    /\ token_calls \in 0 .. MaxRows
    /\ token_result \in TokenResults \cup { "none" }
    /\ Len(requests) <= MaxRows
    /\ loop_exit \in { "none", "exhausted", "cap", "token" }
    /\ Len(tally) <= 1
    /\ skipped_rows \subseteq 2 .. (1 + MaxRows)
    /\ row \in Rows
    /\ log_error \in BOOLEAN
    /\ exit_status \in { << >>, << 0 >>, << 1 >> }

----------------------------------------------------------------------------
(* Properties of the run *)

\* every token fetch so far returned a token
AllTokensFetched == token_result \in { "none", "token" }

\* a token fetch has failed
TokenFetchFailed == token_result \notin { "none", "token" }

\* every submission so far returned true
AllSubmissionsSucceeded == routes_created_count = Len(requests)

\* the outcome of a requests.post that is not a success
Failed(r) == r.kind # "none" /\ ~(r.kind = "status" /\ r.code \in { 200, 201 })

\* C1: with max_routes_to_create = K >= 0, more than K extracted records and
\* only successful token fetches and submissions, never more than K requests,
\* attempts or token fetches happen, record K+1 is never submitted, and the
\* finished run has issued exactly K requests with the attempted counter at K.
C1_CapStopsAfterK ==
    LET K == config.max_routes IN
    ( K >= 0 /\ Len(parsed_data) > K /\ AllTokensFetched /\ AllSubmissionsSucceeded )
    => /\ Len(requests) <= K
       /\ routes_attempted_count <= K
       /\ token_calls <= K
       /\ \A k \in 1..Len(requests) : requests[k].line # parsed_data[K + 1].line
       /\ pc = "done" => /\ Len(requests) = K
                         /\ routes_attempted_count = K
                         /\ token_calls = K

C1_Witness ==
    /\ pc = "done"
    /\ config.max_routes >= 1
    /\ Len(parsed_data) > config.max_routes
    /\ loop_exit = "cap"
    /\ Len(requests) = config.max_routes
    /\ routes_created_count = config.max_routes
    /\ routes_attempted_count = config.max_routes

\* C2: once the token fetch for the M-th record (M = i) has failed, exactly
\* the first M-1 records have been submitted, the loop is left, nothing more
\* is attempted and the process ends with exit status 0.
C2_TokenFailureStopsLoop ==
    TokenFetchFailed
    => /\ pc \in { "finish", "done" }
       /\ Len(requests) = i - 1
       /\ \A k \in 1..Len(requests) : requests[k].line = parsed_data[k].line
       /\ routes_attempted_count = i
       /\ token_calls = i
       /\ pc = "finish" => exit_status = << >>
       /\ pc = "done" => exit_status = << 0 >>

C2_Witness ==
    /\ token_result = "nonzero"
    /\ pc = "done"
    /\ Len(parsed_data) = 3
    /\ i = 2
    /\ Len(requests) = 1
    /\ exit_status = << 0 >>

\* C3: for a configured max_routes_to_create >= 0 the number of routes
\* created never exceeds it, whatever mix of successes and failures occurs.
C3_CreatedNeverExceedsCap ==
    config.max_routes >= 0 => routes_created_count <= config.max_routes

C3_Witness ==
    /\ pc = "done"
    /\ loop_exit = "cap"
    /\ routes_created_count = config.max_routes
    /\ routes_created_count >= 1
    /\ Len(requests) > routes_created_count

\* C4: the route identifiers of any two creation requests of a run differ.
C4_RouteIdsDistinct ==
    \A a, b \in 1..Len(requests) : a # b => requests[a].id # requests[b].id

C4_Witness ==
    /\ Len(requests) >= 2
    /\ routes_created_count = 0
    /\ config.prefix = << "p", "-" >>
    /\ parsed_data[1].display_name = Str(<< "a", "-", "1" >>)
    /\ parsed_data[2].display_name = Str(<< "A", " ", "1", "!" >>)
    /\ requests[1].id = << "p", "-", "a", "-", "1", "-", "1" >>
    /\ requests[2].id = << "p", "-", "a", "-", "1", "-", "2" >>

\* a setup error: no usable configuration document, no project id, or a CSV
\* header that has the columns of neither configured encoding
SetupError ==
    \/ config_file \in { "missing", "malformed", "empty" }
    \/ config_file = "ok" /\ ~config.google_project_id
    \/ /\ csv.exists /\ csv.fieldnames
       /\ ~(config.combined /\ csv.combined)
       /\ ~(config.separate /\ csv.separate)

\* C5: on a setup error the run is aborted with exit status 1, and no token
\* fetch and no creation request has been made.
C5_SetupErrorAbortsBeforeNetwork ==
    SetupError => /\ pc = "aborted"
                  /\ exit_status = << 1 >>
                  /\ token_calls = 0
                  /\ requests = << >>

C5_Witness ==
    /\ pc = "aborted"
    /\ config_file = "ok"
    /\ config.google_project_id
    /\ config.combined /\ config.separate
    /\ csv.exists /\ csv.fieldnames /\ ~csv.combined /\ ~csv.separate
    /\ exit_status = << 1 >>

\* C6: a failed submission does not end the batch: the step that makes it
\* leaves the success counter and the exit status alone and returns to the
\* loop; from there, with records left and the success counter below the cap,
\* the next record is attempted, and a token that is fetched is followed by
\* the submission of that record.
C6_FailedSubmissionContinues ==
    [][ /\ ( pc = "submit" /\ Failed(response') )
           => /\ pc' = "loop_head"
              /\ routes_created_count' = routes_created_count
              /\ exit_status' = << >>
        /\ ( /\ pc = "loop_head" /\ Failed(response)
             /\ i < Len(parsed_data)
             /\ routes_created_count < config.max_routes )
           => /\ pc' = "fetch_token"
              /\ i' = i + 1
              /\ routes_attempted_count' = routes_attempted_count + 1
        /\ ( pc = "fetch_token" /\ token_result' = "token" )
           => pc' = "submit"
        /\ pc = "submit"
           => /\ Len(requests') = Len(requests) + 1
              /\ requests'[Len(requests')].line = parsed_data[i].line
      ]_vars

C6_Witness ==
    /\ pc = "loop_head"
    /\ Len(requests) = 2
    /\ routes_created_count = 1
    /\ created_ok
    /\ response = [ kind |-> "status", code |-> 201 ]

\* C7: create_route_segment returns true exactly for the statuses 200 and
\* 201, false for every other outcome, and control is back in the batch loop
\* after every outcome (no exception leaves the function).
C7_TrueIff200Or201 ==
    response.kind # "none"
    => /\ pc = "loop_head"
       /\ created_ok = ( response.kind = "status" /\ response.code \in { 200, 201 } )

C7_Witness ==
    /\ response = [ kind |-> "Exception", code |-> 0 ]
    /\ pc = "loop_head"
    /\ ~created_ok
    /\ routes_created_count = 0
    /\ Len(requests) = 1

\* C8 as claimed: at the end of every run the number of creation requests
\* equals the attempted counter of the final tally.
C8_RequestsEqualAttempted ==
    ( pc = "done" /\ tally # << >> ) => Len(requests) = tally[1].attempted

\* C8 amended: at the end of every run the tally reports the attempted
\* counter, and the number of creation requests equals it, less one when the
\* loop was stopped by a failed token fetch (the record counted before the
\* fetch was never submitted).
C8_RequestsEqualAttemptedButTokenStop ==
    ( pc = "done" /\ tally # << >> )
    => /\ tally[1].attempted = routes_attempted_count
       /\ Len(requests) = tally[1].attempted - ( IF TokenFetchFailed THEN 1 ELSE 0 )

C8_Witness ==
    /\ pc = "done"
    /\ loop_exit = "token"
    /\ tally # << >>
    /\ tally[1].attempted = 2
    /\ Len(requests) = 1

\* C9: once the submission loop is entered the run can only go on to the
\* final tally: the loop is left to the tally step alone, that step writes the
\* one tally line (attempted, created, available) and ends the process with
\* exit status 0, and nothing follows it.
C9_LoopExitEmitsTallyOnce ==
    /\ [] ( loop_exit # "none"
            => /\ pc \in { "finish", "done" }
               /\ pc = "finish" => ( tally = << >> /\ exit_status = << >> )
               /\ pc = "done"
                  => /\ exit_status = << 0 >>
                     /\ tally = << [ attempted |-> routes_attempted_count,
                                     available |-> Len(parsed_data),
                                     created   |-> routes_created_count ] >> )
    /\ [] ( pc \in { "loop_head", "fetch_token", "submit" }
            => ( tally = << >> /\ exit_status = << >> ) )
    /\ [][ /\ pc \in { "loop_head", "fetch_token", "submit" }
              => pc' \in { "loop_head", "fetch_token", "submit", "finish" }
           /\ pc' = "finish" => loop_exit' # "none"
           /\ pc = "finish" => ( pc' = "done" /\ Len(tally') = 1 )
           /\ pc # "done"
         ]_vars

C9_Witness ==
    /\ pc = "done"
    /\ loop_exit = "cap"
    /\ Len(tally) = 1
    /\ tally[1].created = 1
    /\ exit_status = << 0 >>

\* C10: the k-th creation request carries the result of the k-th token fetch,
\* made in its own iteration; the number of token fetches equals the
\* attempted counter (one behind while the fetch of the current record is
\* still to be made).
C10_FreshTokenPerRequest ==
    /\ \A k \in 1..Len(requests) : requests[k].token = k
    /\ token_calls = routes_attempted_count - ( IF pc = "fetch_token" THEN 1 ELSE 0 )
    /\ pc = "submit" => /\ token_result = "token"
                        /\ current_token = token_calls
                        /\ current_token = Len(requests) + 1

C10_Witness ==
    /\ Len(requests) = 2
    /\ requests[1].token = 1
    /\ requests[2].token = 2
    /\ token_calls = 2
    /\ routes_attempted_count = 2
    /\ routes_created_count = 0


\* C11: the records for which creation requests were issued are a prefix of
\* the extracted sequence, in its order: the k-th request is for the k-th
\* record, so no record is submitted twice and a record whose submission or
\* token fetch failed is not tried again.
C11_RequestsArePrefixInOrder ==
    /\ Len(requests) <= Len(parsed_data)
    /\ \A k \in 1..Len(requests) : requests[k].line = parsed_data[k].line
    /\ \A a, b \in 1..Len(requests) : a # b => requests[a].line # requests[b].line
    /\ Len(requests) <= i
    /\ TokenFetchFailed => Len(requests) = i - 1

C11_Witness ==
    /\ pc = "done"
    /\ Len(parsed_data) = 3
    /\ Len(requests) = 2
    /\ routes_created_count = 0
    /\ TokenFetchFailed
    /\ requests[1].line = parsed_data[1].line
    /\ requests[2].line = parsed_data[2].line


\* the line numbers of the extracted records
ExtractedLines == { parsed_data[k].line : k \in 1..Len(parsed_data) }

\* do the cells of row r parse under the encoding in use?
CellsParse(r) ==
    \/ encoding = "combined" /\ r.combined_ok
    \/ encoding = "separate" /\ r.separate_ok

\* C12: a data row that cannot be parsed is skipped and extraction goes on:
\* every row read is either extracted or skipped, the row just read is
\* extracted exactly when its cells parse (whatever was skipped before it),
\* the extracted records keep the file order, reading a row never ends the
\* extraction or touches the counters, and a skipped row is never submitted.
C12_BadRowSkippedOnly ==
    /\ [] ( /\ \A a, b \in 1..Len(parsed_data) :
                  a < b => parsed_data[a].line < parsed_data[b].line
            /\ ExtractedLines \cap skipped_rows = { }
            /\ pc = "parse_rows" => ExtractedLines \cup skipped_rows = 2 .. (line_num - 1)
            /\ ( pc = "parse_rows" /\ line_num > 2 )
               => IF CellsParse(row)
                  THEN parsed_data[Len(parsed_data)].line = line_num - 1
                  ELSE (line_num - 1) \in skipped_rows
            /\ \A k \in 1..Len(requests) : requests[k].line \notin skipped_rows
            /\ routes_attempted_count <= Len(parsed_data) )
    /\ [][ pc = "parse_rows"
           => /\ pc' \in { "parse_rows", "loop_head", "done" }
              /\ routes_attempted_count' = 0
              /\ routes_created_count' = 0
              /\ pc' = "parse_rows" => line_num' = line_num + 1
         ]_vars

C12_Witness ==
    /\ pc = "done"
    /\ skipped_rows = { 3 }
    /\ Len(parsed_data) = 2
    /\ parsed_data[1].line = 2
    /\ parsed_data[2].line = 4
    /\ Len(requests) = 2
    /\ requests[2].line = 4
    /\ routes_attempted_count = 2


\* the header has the columns the configuration names for the combined
\* encoding / for the separate encoding
HeaderHasCombined == csv.exists /\ csv.fieldnames /\ config.combined /\ csv.combined
HeaderHasSeparate == csv.exists /\ csv.fieldnames /\ config.separate /\ csv.separate

\* C13: for a file with a header row the encoding is decided by header and
\* configuration alone: combined whenever the header has the configured
\* combined columns (also when it has the separate ones too), separate when
\* it has only the configured separate columns (rows are then judged by their
\* separate cells alone), and otherwise the mismatch is signalled and nothing
\* is extracted.
C13_EncodingDetection ==
    ( csv.exists /\ csv.fieldnames )
    => /\ HeaderHasCombined
          => ( pc = "parse_rows" /\ encoding = "combined" )
       /\ ( ~HeaderHasCombined /\ HeaderHasSeparate )
          => /\ pc = "parse_rows" /\ encoding = "separate"
             /\ line_num > 2
                => ( row.separate_ok <=> ( Len(parsed_data) > 0
                                           /\ parsed_data[Len(parsed_data)].line = line_num - 1 ) )
       /\ ( ~HeaderHasCombined /\ ~HeaderHasSeparate )
          => ( pc = "aborted" /\ encoding = "none" /\ parsed_data = << >> )

C13_Witness ==
    /\ pc = "parse_rows"
    /\ config.combined /\ config.separate
    /\ csv.combined /\ csv.separate
    /\ encoding = "combined"
    /\ line_num = 3
    /\ row.combined_ok /\ ~row.separate_ok
    /\ Len(parsed_data) = 1


\* C14: for an empty input file (no header row) and a configuration naming
\* at least one encoding, extraction yields the empty sequence without an
\* error: the run is neither aborted nor in the outermost handler, and does
\* not end with a non-zero exit status.
C14_EmptyFileIsNothingToDo ==
    ( csv.exists /\ ~csv.fieldnames /\ ( config.combined \/ config.separate ) )
    => /\ pc \notin { "handler", "crashed", "aborted" }
       /\ parsed_data = << >>
       /\ exit_status # << 1 >>


\* C15: every write_log call of a run completes without raising.
C15_WriteLogNeverRaises == ~log_error

\* C16: when the outermost handler has dealt with an exception that escaped
\* main_route_creator, it has written its critical-error log entry, once, and
\* the process has ended with a non-zero exit status.
C16_HandlerLogsThenExits ==
    pc = "crashed" => ( critical_logged = 1 /\ exit_status = << 1 >> )


\* C17: the k-th creation request of a run carries the sequence counter k,
\* its identifier ends in "-k", and it is for the k-th extracted record,
\* whether or not earlier submissions succeeded and whatever rows were
\* skipped during parsing; the counter in use is the attempted counter.
C17_CounterIsAttemptPosition ==
    /\ \A k \in 1..Len(requests) :
          LET id == requests[k].id IN
          /\ requests[k].counter = k
          /\ requests[k].line = parsed_data[k].line
          /\ id[Len(id)] = Digits[k + 1]
          /\ id[Len(id) - 1] = "-"
    /\ pc = "submit" => routes_attempted_count = Len(requests) + 1
    /\ pc \in { "loop_head", "finish", "done" } /\ ~TokenFetchFailed
       => routes_attempted_count = Len(requests)

C17_Witness ==
    /\ skipped_rows = { 2 }
    /\ pc = "loop_head"
    /\ Len(requests) = 2
    /\ routes_created_count = 0
    /\ requests[2].counter = 2
    /\ requests[2].line = 4
    /\ routes_attempted_count = 2


\* C18: when the header matched an encoding and extraction ends with no
\* record, the run ends at once with exit status 0 (not aborted), and no token
\* was fetched and no creation request issued; the submission loop is only
\* entered with at least one record.
C18_NoDataEndsCleanly ==
    /\ [] ( ( pc = "done" /\ parsed_data = << >> )
            => /\ exit_status = << 0 >>
               /\ token_calls = 0
               /\ requests = << >> )
    /\ [] ( pc \in { "loop_head", "fetch_token", "submit", "finish" }
            => parsed_data # << >> )
    /\ [][ ( pc = "parse_rows" /\ pc' # "parse_rows" /\ parsed_data = << >> )
           => /\ pc' = "done"
              /\ exit_status' = << 0 >>
              /\ token_calls' = 0
              /\ requests' = << >>
         ]_vars

C18_Witness ==
    /\ pc = "done"
    /\ parsed_data = << >>
    /\ skipped_rows = { 2, 3 }
    /\ exit_status = << 0 >>
    /\ token_calls = 0
    /\ requests = << >>


\* the run is over: Done (exit 0) or Aborted (non-zero exit)
Terminated == pc \in { "done", "aborted", "crashed" }

\* an upper bound on the steps a run still has to make: three per record not
\* yet reached by the loop, one per row not yet read
StepsLeft ==
    LET records == 3 * ( Len(parsed_data) - i )
        rows    == ( 2 + MaxRows ) - line_num
    IN  IF Terminated THEN 0
        ELSE IF pc \in { "handler", "finish" } THEN 1
        ELSE IF pc = "loop_head" THEN records + 2
        ELSE IF pc = "submit" THEN records + 3
        ELSE IF pc = "fetch_token" THEN records + 4
        ELSE IF pc = "parse_rows" THEN rows + 3 * MaxRows + 3
        ELSE IF pc = "parse_header" THEN 4 * MaxRows + 4
        ELSE IF pc = "configure" THEN 4 * MaxRows + 5
        ELSE 4 * MaxRows + 6

\* C19: every run terminates, given that each token fetch and each
\* submission returns: a run that is not over can always take its next step,
\* every step lowers the bound on the steps left, the loop makes at most one
\* iteration per extracted record, and a run that is over has exit status 0
\* (Done) or 1 (Aborted).
C19_RunTerminates ==
    /\ [] ( Terminated \/ ENABLED Next )
    /\ [] ( StepsLeft >= 0 /\ i <= Len(parsed_data)
            /\ routes_attempted_count <= i )
    /\ [] ( Terminated <=> exit_status # << >> )
    /\ [] ( pc = "done" => exit_status = << 0 >> )
    /\ [] ( pc \in { "aborted", "crashed" } => exit_status = << 1 >> )
    /\ [][ StepsLeft' < StepsLeft ]_vars

C19_Witness ==
    /\ pc = "done"
    /\ Len(parsed_data) = 3
    /\ i = 3
    /\ loop_exit = "exhausted"
    /\ routes_attempted_count = 3
    /\ StepsLeft = 0


\* C20: in every state of the submission loop and in the final tally,
\* 0 <= routes created <= rows attempted <= extracted records; neither
\* counter ever decreases, the attempted counter grows by at most 1 per
\* iteration (only at the top of the loop), and the created counter grows
\* by 1 only in the step where a submission returned true.
C20_CountersOrdered ==
    /\ [] ( /\ 0 <= routes_created_count
            /\ routes_created_count <= routes_attempted_count
            /\ routes_attempted_count <= Len(parsed_data) )
    /\ [] ( \A k \in 1 .. Len(tally) :
              /\ 0 <= tally[k].created
              /\ tally[k].created <= tally[k].attempted
              /\ tally[k].attempted <= tally[k].available )
    /\ [][ /\ routes_attempted_count' \in
                { routes_attempted_count, routes_attempted_count + 1 }
           /\ routes_created_count' \in
                { routes_created_count, routes_created_count + 1 }
           /\ ( routes_attempted_count' # routes_attempted_count
                => ( pc = "loop_head" /\ i' = i + 1 ) )
           /\ ( routes_created_count' # routes_created_count
                => /\ pc = "submit"
                   /\ pc' = "loop_head"
                   /\ created_ok'
                   /\ Len(requests') = Len(requests) + 1
                   /\ response'.kind = "status"
                   /\ response'.code \in { 200, 201 } ) ]_vars

C20_Witness ==
    /\ pc = "done"
    /\ Len(parsed_data) = 3
    /\ Len(tally) = 1
    /\ tally[1].created = 1
    /\ tally[1].attempted = 2
    /\ tally[1].available = 3
    /\ Len(requests) = 2
    /\ ~created_ok

====
